---- MODULE Spec2Model ----
(***************************************************************************)
(* A model of the JSON / simplified-JSON tokenizer of foundation_lib       *)
(* (src/foundation/json.c).  The mutually recursive parsers parse_value,   *)
(* parse_object and parse_array are modelled with an explicit call stack;  *)
(* one action is one straight-line piece of one of these functions.  The   *)
(* lexical scans (skip_whitespace, parse_string, parse_number) are pure    *)
(* functions of the buffer and are modelled as operators.                  *)
(*                                                                         *)
(* Characters are one-character strings, the input buffer is a sequence of *)
(* characters (C index p is element p + 1), and the bytes that lie in      *)
(* memory after the declared length are part of the modelled memory.       *)
(***************************************************************************)
EXTENDS Integers, Sequences, FiniteSets, TLC

VARIABLES
    buffer,     \* the memory holding the input: declared bytes, then the bytes after them
    size,       \* the declared length of the input
    capacity,   \* the capacity passed for the token array
    tokens,     \* the token array (memory, also beyond capacity)
    tokens0,    \* the content of the token array before the current call
    current,    \* the logical token index (unsigned int current)
    simple,     \* FALSE in json_parse, TRUE in sjson_parse
    stack,      \* call stack of parse_value / parse_object / parse_array, top last
    ret,        \* the value returned by the call that returned last
    pc,         \* "idle", "json_parse", "sjson_parse", "sjson_object", "done"
    result,     \* the value returned by the entry point
    maxread,    \* the highest buffer index read so far in this call, -1 if none
    ncall,      \* number of the current call of the caller (1 or 2)
    first,      \* what the caller kept of its first call
    parent,     \* history: parent[i + 1] is the container token i was produced in, -1 for the root
    open        \* history: the tokens of the containers being parsed, innermost last

vars == <<buffer, size, capacity, tokens, tokens0, current, simple, stack, ret,
          pc, result, maxread, ncall, first, parent, open>>

(***************************************************************************)
(* Constants of the program                                                *)
(***************************************************************************)

\* (size_t)-1: the failure sentinel.  It is only compared with positions, never
\* used in arithmetic, so the largest integer TLC handles stands for it.
STRING_NPOS == 2147483647

JSON_UNDEFINED == "JSON_UNDEFINED"
JSON_OBJECT == "JSON_OBJECT"
JSON_ARRAY == "JSON_ARRAY"
JSON_STRING == "JSON_STRING"
JSON_PRIMITIVE == "JSON_PRIMITIVE"

JsonTypes == {JSON_UNDEFINED, JSON_OBJECT, JSON_ARRAY, JSON_STRING, JSON_PRIMITIVE}

NUL == "NUL"

Digits == {"0", "1", "2", "3", "4", "5", "6", "7", "8", "9"}

HexDigits == Digits \cup {"A", "B", "C", "D", "E", "F"} \cup {"a", "b", "c", "d", "e", "f"}

Max(a, b) == IF a >= b THEN a ELSE b

Min(a, b) == IF a <= b THEN a ELSE b

(***************************************************************************)
(* Token array helpers                                                     *)
(***************************************************************************)

\* get_token with the bound off by one
HasTokenOffByOne(cap, index) == index <= cap

\* get_token: the slot is writable (non-null) iff index < capacity
HasToken(cap, index) == index < cap

\* is_valid_token taking a token the array cannot hold for an invalid one
IsValidTokenStored(toks, cap, index) ==
    HasToken(cap, index) /\ toks[index].type # JSON_UNDEFINED

\* is_valid_token
IsValidToken(toks, cap, index) ==
    IF HasToken(cap, index) THEN toks[index].type # JSON_UNDEFINED ELSE TRUE

\* set_token_primitive leaving the type field as it finds it
SetTokenPrimitiveKeepsType(toks, cap, cur, type, value, value_length) ==
    IF HasToken(cap, cur)
    THEN [toks EXCEPT ![cur] = [@ EXCEPT !.child = 0, !.sibling = 0,
                                         !.value = value, !.value_length = value_length]]
    ELSE toks

SetTokenPrimitive(toks, cap, cur, type, value, value_length) ==
    IF HasToken(cap, cur)
    THEN [toks EXCEPT ![cur] = [@ EXCEPT !.type = type, !.child = 0, !.sibling = 0,
                                         !.value = value, !.value_length = value_length]]
    ELSE toks

\* set_token_complex with the first child one index too far
SetTokenComplexSkipping(toks, cap, cur, type) ==
    IF HasToken(cap, cur)
    THEN [toks EXCEPT ![cur] = [@ EXCEPT !.type = type, !.child = cur + 2, !.sibling = 0,
                                         !.value = 0, !.value_length = 0]]
    ELSE toks

SetTokenComplex(toks, cap, cur, type) ==
    IF HasToken(cap, cur)
    THEN [toks EXCEPT ![cur] = [@ EXCEPT !.type = type, !.child = cur + 1, !.sibling = 0,
                                         !.value = 0, !.value_length = 0]]
    ELSE toks

SetTokenId(toks, cap, cur, id, id_length) ==
    IF HasToken(cap, cur)
    THEN [toks EXCEPT ![cur] = [@ EXCEPT !.id = id, !.id_length = id_length]]
    ELSE toks

\* the sibling link stored in the later token and pointing back at the earlier
SetTokenSiblingBackward(toks, cap, last, value) ==
    IF HasToken(cap, value)
    THEN [toks EXCEPT ![value] = [@ EXCEPT !.sibling = last]]
    ELSE toks

\* if ((token = get_token(tokens, capacity, last))) token->sibling = value;
SetTokenSibling(toks, cap, last, value) ==
    IF HasToken(cap, last)
    THEN [toks EXCEPT ![last] = [@ EXCEPT !.sibling = value]]
    ELSE toks

(***************************************************************************)
(* Lexical primitives.  buf is the memory, len the declared length.        *)
(***************************************************************************)

\* buffer[p]
At(buf, p) == buf[p + 1]

IsWhitespace(c) == c \in {" ", "\t", "\n", "\r"}

IsTokenDelimiter(c) == IsWhitespace(c) \/ c = "]" \/ c = "}" \/ c = ","

RECURSIVE SkipWhitespace(_, _, _)
SkipWhitespace(buf, len, pos) ==
    IF pos < len
    THEN IF ~IsWhitespace(At(buf, pos)) THEN pos ELSE SkipWhitespace(buf, len, pos + 1)
    ELSE pos

\* the highest index skip_whitespace(buffer, len, pos) reads, -1 if it reads none
SkipWhitespaceRead(buf, len, pos) ==
    IF pos < len THEN Min(SkipWhitespace(buf, len, pos), len - 1) ELSE -1

\* the \uXXXX loop of parse_string: pos is the index of the 'u'
RECURSIVE HexEscape(_, _, _, _)
HexEscape(buf, len, pos, esc) ==
    IF esc < 4 /\ pos < len
    THEN IF At(buf, pos + 1) \notin HexDigits
         THEN [ok |-> FALSE, pos |-> pos + 1, rd |-> pos + 1]
         ELSE HexEscape(buf, len, pos + 1, esc + 1)
    ELSE [ok |-> TRUE, pos |-> pos, rd |-> pos]

EscapedSymbols == {"\"", "/", "\\", "b", "f", "r", "n", "t"}

\* the loop of parse_string from position pos; start is the position of the call.
\* Yields [r |-> returned length or STRING_NPOS, rd |-> highest index read, -1 if none]
RECURSIVE ParseStringLoop(_, _, _, _, _)
ParseStringLoop(buf, len, start, pos, simp) ==
    IF pos < len
    THEN LET c == At(buf, pos)
         IN  IF simp /\ (IsTokenDelimiter(c) \/ c = "=" \/ c = ":")
             THEN [r |-> pos - start, rd |-> pos]
             ELSE IF c = "\""
             THEN [r |-> pos - start, rd |-> pos]
             ELSE IF c = "\\" /\ pos + 1 < len
             THEN IF At(buf, pos + 1) \in EscapedSymbols
                  THEN LET rest == ParseStringLoop(buf, len, start, pos + 1, simp)
                       IN  [r |-> rest.r, rd |-> Max(pos + 1, rest.rd)]
                  ELSE IF At(buf, pos + 1) = "u"
                  THEN LET hex == HexEscape(buf, len, pos + 1, 0)
                       IN  IF ~hex.ok
                           THEN [r |-> STRING_NPOS, rd |-> hex.rd]
                           ELSE LET rest == ParseStringLoop(buf, len, start, hex.pos, simp)
                                IN  [r |-> rest.r, rd |-> Max(hex.rd, rest.rd)]
                  ELSE [r |-> STRING_NPOS, rd |-> pos + 1]
             ELSE LET rest == ParseStringLoop(buf, len, start, pos + 1, simp)
                  IN  [r |-> rest.r, rd |-> Max(pos, rest.rd)]
    ELSE [r |-> IF simp THEN pos - start ELSE STRING_NPOS, rd |-> -1]

ParseString(buf, len, pos, simp) == ParseStringLoop(buf, len, pos, pos, simp)

\* the loop of parse_number; yields [r, rd] as ParseStringLoop does
RECURSIVE ParseNumberLoop(_, _, _, _, _, _, _)
ParseNumberLoop(buf, len, start, pos, has_dot, has_digit, has_exp) ==
    IF pos < len
    THEN LET c == At(buf, pos)
             Go(p, dot, digit, exp, rd) ==
                 LET rest == ParseNumberLoop(buf, len, start, p, dot, digit, exp)
                 IN  [r |-> rest.r, rd |-> Max(rd, rest.rd)]
         IN  IF IsTokenDelimiter(c)
             THEN [r |-> pos - start, rd |-> pos]
             ELSE IF c = "-" /\ ~(start = pos)
             THEN [r |-> STRING_NPOS, rd |-> pos]
             ELSE IF c = "."
             THEN IF has_dot \/ has_exp
                  THEN [r |-> STRING_NPOS, rd |-> pos]
                  ELSE Go(pos + 1, TRUE, has_digit, has_exp, pos)
             ELSE IF c = "e" \/ c = "E"
             THEN IF ~has_digit \/ has_exp
                  THEN [r |-> STRING_NPOS, rd |-> pos]
                  ELSE IF pos + 1 < len
                       THEN IF At(buf, pos + 1) = "+" \/ At(buf, pos + 1) = "-"
                            THEN Go(pos + 2, has_dot, has_digit, TRUE, pos + 1)
                            ELSE Go(pos + 1, has_dot, has_digit, TRUE, pos + 1)
                       ELSE Go(pos + 1, has_dot, has_digit, TRUE, pos)
             ELSE IF c \notin Digits
             THEN [r |-> STRING_NPOS, rd |-> pos]
             ELSE Go(pos + 1, has_dot, TRUE, has_exp, pos)
    ELSE [r |-> pos - start, rd |-> -1]

ParseNumber(buf, len, pos) == ParseNumberLoop(buf, len, pos, pos, FALSE, FALSE, FALSE)

\* string_equal(buffer + pos, n, text): the n bytes at pos are those of text
StringEqual(buf, pos, text) == \A i \in 1..Len(text) : At(buf, pos + i - 1) = text[i]

(***************************************************************************)
(* The call stack                                                          *)
(***************************************************************************)

\* A frame of parse_value, parse_object or parse_array: the function, the place
\* in it, and its locals pos, last and now.
Frame(fn, at, pos, last, now) ==
    [fn |-> fn, at |-> at, pos |-> pos, last |-> last, now |-> now]

Top == stack[Len(stack)]

Running == pc \in {"json_parse", "sjson_parse", "sjson_object"}

Caller == SubSeq(stack, 1, Len(stack) - 1)

\* the container the next token is produced in
Owner == IF open = <<>> THEN -1 ELSE open[Len(open)]

\* parse_object and parse_array leave their container when they return
Leave == open' = IF Len(stack') < Len(stack) THEN SubSeq(open, 1, Len(open) - 1) ELSE open

\* return v from the function on top of the stack
Return(v) == stack' = Caller /\ ret' = v

\* go on in the function on top of the stack
Goto(at, pos, last, now) == stack' = Append(Caller, Frame(Top.fn, at, pos, last, now))

\* call fn(..., pos, ...) from the function on top of the stack, which goes on at `at`
Call(at, last, now, fn, pos) ==
    stack' = Append(Append(Caller, Frame(Top.fn, at, Top.pos, last, now)),
                    Frame(fn, "start", pos, 0, 0))

(***************************************************************************)
(* Bounds of the model                                                     *)
(***************************************************************************)

\* A parse that does not terminate is followed until it has produced this many
\* tokens more than the input has bytes (a terminating parse never does).
MaxSpin == 2

\* The longest input, in lexemes (see Inputs below)
MaxLex == 4

\* The largest capacity the caller passes
MaxCap == 3

\* The longest input of the specification of nested values, in lexemes
MaxTreeLex == 5

\* The longest input of the specification of two calls, in lexemes
MaxPairLex == 3

\* The longest scalar text of the specification of numbers and literals, in lexemes
MaxScalarLex == 4

\* The longest text of the specification of strings and escapes, in lexemes
MaxStringLex == 4

\* The longest input of the specification of key=value listings, in lexemes
MaxListLex == 4

\* The most members of an object body of the specification of separators
MaxMembers == 3

\* The longest input of the specification of the memory after the buffer, in lexemes
MaxPadLex == 3

\* The bytes after the declared length that the caller does not control
MaxPast == 2

\* The longest object body of the specification of keys and separators, in lexemes
MaxKeyLex == 3

\* The longest input of the specification of truncated inputs, in lexemes
MaxTruncLex == 3

\* The longest input of the specification of array contents, in lexemes
MaxFillLex == 3

\* The longest member list of the specification of both modes, in lexemes
MaxRelaxLex == 3

\* The longest input of the specification of trailing content, in lexemes
MaxTrailLex == 4

(***************************************************************************)
(* parse_value                                                             *)
(***************************************************************************)

\* The outcome of a piece of code that ends by returning: the returned value, the
\* token array, the token index and the highest buffer index read.
Outcome(r, toks, cur, rd) == [ret |-> r, toks |-> toks, cur |-> cur, rd |-> rd]

\* lines 282-289: the character before pos starts a number
ValueNumber(buf, len, pos, toks, cap, cur) ==
    LET n == ParseNumber(buf, len, pos - 1)
    IN  IF n.r = STRING_NPOS
        THEN Outcome(STRING_NPOS, toks, cur, n.rd)
        ELSE Outcome(pos + n.r - 1,
                     SetTokenPrimitive(toks, cap, cur, JSON_PRIMITIVE, pos - 1, n.r),
                     cur + 1, n.rd)

\* parse_value's string case with the closing quote counted into the span
ValueStringWithQuote(buf, len, pos, c, toks, cap, cur, simp) ==
    IF c # "\"" /\ ~simp
    THEN Outcome(STRING_NPOS, toks, cur, -1)
    ELSE LET from == IF c # "\"" THEN pos - 1 ELSE pos
             s == ParseString(buf, len, from, simp)
             quoted == ~simp \/ (from + s.r < len /\ At(buf, from + s.r) = "\"")
             string == s.r + (IF quoted THEN 1 ELSE 0)
         IN  IF s.r = STRING_NPOS
             THEN Outcome(STRING_NPOS, toks, cur, s.rd)
             ELSE Outcome(from + string,
                          SetTokenPrimitive(toks, cap, cur, JSON_STRING, from, string),
                          cur + 1, s.rd)

\* parse_value's string case without ++(*current)
ValueStringUncounted(buf, len, pos, c, toks, cap, cur, simp) ==
    IF c # "\"" /\ ~simp
    THEN Outcome(STRING_NPOS, toks, cur, -1)
    ELSE LET from == IF c # "\"" THEN pos - 1 ELSE pos
             s == ParseString(buf, len, from, simp)
             quoted == ~simp \/ (from + s.r < len /\ At(buf, from + s.r) = "\"")
         IN  IF s.r = STRING_NPOS
             THEN Outcome(STRING_NPOS, toks, cur, s.rd)
             ELSE Outcome(from + s.r + (IF quoted THEN 1 ELSE 0),
                          SetTokenPrimitive(toks, cap, cur, JSON_STRING, from, s.r),
                          cur, s.rd)

\* lines 309-324: a string starts at pos (after a quote) or, in simple mode, with
\* the character c before pos
ValueString(buf, len, pos, c, toks, cap, cur, simp) ==
    IF c # "\"" /\ ~simp
    THEN Outcome(STRING_NPOS, toks, cur, -1)
    ELSE LET from == IF c # "\"" THEN pos - 1 ELSE pos
             s == ParseString(buf, len, from, simp)
             quoted == ~simp \/ (from + s.r < len /\ At(buf, from + s.r) = "\"")
         IN  IF s.r = STRING_NPOS
             THEN Outcome(STRING_NPOS, toks, cur, s.rd)
             ELSE Outcome(from + s.r + (IF quoted THEN 1 ELSE 0),
                          SetTokenPrimitive(toks, cap, cur, JSON_STRING, from, s.r),
                          cur + 1, s.rd)

\* lines 293-294 and 299-300: the literal c ++ text ends before pos + Len(text)
IsLiteral(buf, len, pos, text) ==
    /\ len - pos >= Len(text) + 1
    /\ StringEqual(buf, pos, text)
    /\ IsTokenDelimiter(At(buf, pos + Len(text)))

\* lines 291-307: the character c before pos is 't' or 'f'
ValueLiteral(buf, len, pos, c, toks, cap, cur, simp) ==
    IF c = "t" /\ IsLiteral(buf, len, pos, <<"r", "u", "e">>)
    THEN Outcome(pos + 3, SetTokenPrimitive(toks, cap, cur, JSON_PRIMITIVE, pos - 1, 4),
                 cur + 1, pos + 3)
    ELSE IF c = "f" /\ IsLiteral(buf, len, pos, <<"a", "l", "s", "e">>)
    THEN Outcome(pos + 4, SetTokenPrimitive(toks, cap, cur, JSON_PRIMITIVE, pos - 1, 5),
                 cur + 1, pos + 4)
    ELSE IF ~simp
    THEN Outcome(STRING_NPOS, toks, cur, -1)
    ELSE ValueString(buf, len, pos, c, toks, cap, cur, simp)

NumberStart == Digits \cup {"-", "."}

\* lines 282-325: the value starting with the character c before pos is not a
\* container
ValueScalar(buf, len, pos, c, toks, cap, cur, simp) ==
    IF c \in NumberStart
    THEN ValueNumber(buf, len, pos, toks, cap, cur)
    ELSE IF c \in {"t", "f"}
    THEN ValueLiteral(buf, len, pos, c, toks, cap, cur, simp)
    ELSE ValueString(buf, len, pos, c, toks, cap, cur, simp)

\* lines 271-272 and 277-278
OpenComplex(toks, cap, cur, c) ==
    SetTokenComplex(toks, cap, cur, IF c = "{" THEN JSON_OBJECT ELSE JSON_ARRAY)

\* parse_value up to its call of parse_object or parse_array, or to its return
ParseValue ==
    /\ Running /\ stack # <<>>
    /\ Top.fn = "parse_value" /\ Top.at = "start"
    /\ current <= size + MaxSpin
    /\ LET pos0 == SkipWhitespace(buffer, size, Top.pos)
           c == At(buffer, pos0)
           pos == pos0 + 1
           v == ValueScalar(buffer, size, pos, c, tokens, capacity, current, simple)
       IN  IF pos0 < size
           THEN IF c \in {"{", "["}
                THEN /\ tokens' = OpenComplex(tokens, capacity, current, c)
                     /\ current' = current + 1
                     /\ Call("return", 0, 0,
                             IF c = "{" THEN "parse_object" ELSE "parse_array", pos)
                     /\ maxread' = Max(maxread, pos0)
                     /\ parent' = Append(parent, Owner)
                     /\ open' = Append(open, current)
                     /\ UNCHANGED ret
                ELSE /\ tokens' = v.toks
                     /\ current' = v.cur
                     /\ Return(v.ret)
                     /\ maxread' = Max(maxread, Max(pos0, v.rd))
                     /\ parent' = IF v.cur # current THEN Append(parent, Owner) ELSE parent
                     /\ UNCHANGED open
           ELSE /\ Return(STRING_NPOS)
                /\ maxread' = Max(maxread, SkipWhitespaceRead(buffer, size, Top.pos))
                /\ UNCHANGED <<tokens, current, parent, open>>
    /\ UNCHANGED <<buffer, size, capacity, tokens0, simple, pc, result, ncall, first>>

\* lines 274 and 280: parse_value returns what parse_object or parse_array returned
ParseValueReturn ==
    /\ Running /\ stack # <<>>
    /\ Top.fn = "parse_value" /\ Top.at = "return"
    /\ Return(ret)
    /\ UNCHANGED <<buffer, size, capacity, tokens, tokens0, current, simple, pc, result,
                   maxread, ncall, first, parent, open>>

(***************************************************************************)
(* parse_object                                                            *)
(***************************************************************************)

\* the key of a member with '=' taken for a separator in strict mode as well
ObjectKeyAnySeparator(buf, len, pos, c, last, simp) ==
    IF last # 0 \/ (c # "\"" /\ ~simp)
    THEN [scanned |-> FALSE, ok |-> FALSE, pos |-> pos, len |-> 0, next |-> pos, rd |-> -1]
    ELSE LET from == IF c # "\"" THEN pos - 1 ELSE pos
             s == ParseString(buf, len, from, simp)
             quoted == ~simp \/ (from + s.r < len /\ At(buf, from + s.r) = "\"")
             sep == SkipWhitespace(buf, len, from + s.r + (IF quoted THEN 1 ELSE 0))
         IN  IF s.r = STRING_NPOS
             THEN [scanned |-> FALSE, ok |-> FALSE, pos |-> from, len |-> 0,
                   next |-> from, rd |-> s.rd]
             ELSE [scanned |-> TRUE,
                   ok |-> At(buf, sep) = ":" \/ At(buf, sep) = "=",
                   pos |-> from, len |-> s.r, next |-> sep, rd |-> Max(s.rd, sep)]

\* lines 192-214: a member's key starts with the character c before pos.  Yields
\* [scanned, ok, pos, len, next, rd]: whether the key was scanned (and is recorded),
\* whether the separator follows it (and parse_value is called), the key's position
\* and length, the position of the separator, and the highest index read.
ObjectKey(buf, len, pos, c, last, simp) ==
    IF last # 0 \/ (c # "\"" /\ ~simp)
    THEN [scanned |-> FALSE, ok |-> FALSE, pos |-> pos, len |-> 0, next |-> pos, rd |-> -1]
    ELSE LET from == IF c # "\"" THEN pos - 1 ELSE pos
             s == ParseString(buf, len, from, simp)
             quoted == ~simp \/ (from + s.r < len /\ At(buf, from + s.r) = "\"")
             sep == SkipWhitespace(buf, len, from + s.r + (IF quoted THEN 1 ELSE 0))
         IN  IF s.r = STRING_NPOS
             THEN [scanned |-> FALSE, ok |-> FALSE, pos |-> from, len |-> 0,
                   next |-> from, rd |-> s.rd]
             ELSE [scanned |-> TRUE,
                   ok |-> At(buf, sep) = ":" \/ (simp /\ At(buf, sep) = "="),
                   pos |-> from, len |-> s.r, next |-> sep, rd |-> Max(s.rd, sep)]

\* lines 171-215: parse_object from its start, or from the head of its loop, up to
\* its call of parse_value or to its return
ParseObject ==
    /\ Running /\ stack # <<>>
    /\ Top.fn = "parse_object" /\ Top.at \in {"start", "loop"}
    /\ LET pos0 == IF Top.at = "start"
                   THEN SkipWhitespace(buffer, size, Top.pos) ELSE Top.pos
           c == At(buffer, pos0)
           pos == pos0 + 1
           last == Top.last
           key == ObjectKey(buffer, size, pos, c, last, simple)
       IN  IF pos0 < size
           THEN /\ maxread' = Max(maxread,
                                  Max(pos0, IF c = "}" THEN -1
                                            ELSE IF c = ","
                                            THEN SkipWhitespaceRead(buffer, size, pos)
                                            ELSE key.rd))
                /\ IF c = "}"
                   THEN /\ IF last # 0 /\ ~IsValidToken(tokens, capacity, last)
                           THEN Return(STRING_NPOS)
                           ELSE Return(pos)
                        /\ UNCHANGED tokens
                   ELSE IF c = ","
                   THEN IF last = 0 \/ ~IsValidToken(tokens, capacity, last)
                        THEN Return(STRING_NPOS) /\ UNCHANGED tokens
                        ELSE /\ tokens' = SetTokenSibling(tokens, capacity, last, current)
                             /\ Goto("loop", SkipWhitespace(buffer, size, pos), 0, 0)
                             /\ UNCHANGED ret
                   ELSE /\ tokens' = IF key.scanned
                                     THEN SetTokenId(tokens, capacity, current, key.pos, key.len)
                                     ELSE tokens
                        /\ IF key.ok
                           THEN Call("value", current, 0, "parse_value", key.next + 1)
                                /\ UNCHANGED ret
                           ELSE Return(STRING_NPOS)
           ELSE /\ Return(IF simple THEN pos0 ELSE STRING_NPOS)
                /\ maxread' = Max(maxread, IF Top.at = "start"
                                           THEN SkipWhitespaceRead(buffer, size, Top.pos)
                                           ELSE -1)
                /\ UNCHANGED tokens
    /\ Leave
    /\ UNCHANGED <<buffer, size, capacity, tokens0, current, simple, pc, result, ncall,
                   first, parent>>

\* parse_object ending a member at an un-delimited boundary without linking it to
\* the member that follows
ParseObjectValueUnlinked ==
    /\ Running /\ stack # <<>>
    /\ Top.fn = "parse_object" /\ Top.at = "value"
    /\ LET pos == SkipWhitespace(buffer, size, ret)
           implicit == simple /\ pos < size /\ At(buffer, pos) # "," /\ At(buffer, pos) # "}"
       IN  /\ tokens' = tokens
           /\ Goto("loop", pos, IF implicit THEN 0 ELSE Top.last, 0)
           /\ maxread' = Max(maxread, SkipWhitespaceRead(buffer, size, ret))
    /\ Leave
    /\ UNCHANGED <<buffer, size, capacity, tokens0, current, simple, ret, pc, result,
                   ncall, first, parent>>

\* parse_object taking the failure of parse_value for the end of the buffer
ParseObjectValueResuming ==
    /\ Running /\ stack # <<>>
    /\ Top.fn = "parse_object" /\ Top.at = "value"
    /\ LET pos == Min(SkipWhitespace(buffer, size, ret), size)
           implicit == simple /\ pos < size /\ At(buffer, pos) # "," /\ At(buffer, pos) # "}"
       IN  /\ tokens' = IF implicit
                        THEN SetTokenSibling(tokens, capacity, Top.last, current)
                        ELSE tokens
           /\ Goto("loop", pos, IF implicit THEN 0 ELSE Top.last, 0)
           /\ maxread' = Max(maxread, SkipWhitespaceRead(buffer, size, ret))
    /\ Leave
    /\ UNCHANGED <<buffer, size, capacity, tokens0, current, simple, ret, pc, result,
                   ncall, first, parent>>

\* lines 215-222: parse_object after parse_value has returned
ParseObjectValue ==
    /\ Running /\ stack # <<>>
    /\ Top.fn = "parse_object" /\ Top.at = "value"
    /\ LET pos == SkipWhitespace(buffer, size, ret)
           implicit == simple /\ pos < size /\ At(buffer, pos) # "," /\ At(buffer, pos) # "}"
       IN  /\ tokens' = IF implicit
                        THEN SetTokenSibling(tokens, capacity, Top.last, current)
                        ELSE tokens
           /\ Goto("loop", pos, IF implicit THEN 0 ELSE Top.last, 0)
           /\ maxread' = Max(maxread, SkipWhitespaceRead(buffer, size, ret))
    /\ Leave
    /\ UNCHANGED <<buffer, size, capacity, tokens0, current, simple, ret, pc, result,
                   ncall, first, parent>>

(***************************************************************************)
(* parse_array                                                             *)
(***************************************************************************)

\* lines 236-238: the start of parse_array
ParseArray ==
    /\ Running /\ stack # <<>>
    /\ Top.fn = "parse_array" /\ Top.at = "start"
    /\ LET pos == SkipWhitespace(buffer, size, Top.pos)
       IN  /\ IF At(buffer, pos) = "]"
              THEN Return(SkipWhitespace(buffer, size, pos + 1))
              ELSE Goto("loop", pos, 0, 0) /\ UNCHANGED ret
           /\ maxread' = Max(maxread,
                             IF At(buffer, pos) = "]"
                             THEN Max(pos, SkipWhitespaceRead(buffer, size, pos + 1))
                             ELSE pos)
    /\ Leave
    /\ UNCHANGED <<buffer, size, capacity, tokens, tokens0, current, simple, pc, result,
                   ncall, first, parent>>

\* lines 240-243: the head of the loop of parse_array, up to its call of parse_value
ParseArrayLoop ==
    /\ Running /\ stack # <<>>
    /\ Top.fn = "parse_array" /\ Top.at = "loop"
    /\ IF Top.pos < size
       THEN /\ tokens' = SetTokenId(tokens, capacity, current, 0, 0)
            /\ Call("value", Top.last, current, "parse_value", Top.pos)
            /\ UNCHANGED ret
       ELSE Return(STRING_NPOS) /\ UNCHANGED tokens
    /\ Leave
    /\ UNCHANGED <<buffer, size, capacity, tokens0, current, simple, pc, result, maxread,
                   ncall, first, parent>>

\* lines 244-255: parse_array after parse_value has returned
ParseArrayValue ==
    /\ Running /\ stack # <<>>
    /\ Top.fn = "parse_array" /\ Top.at = "value"
    /\ IF ret = STRING_NPOS
       THEN Return(STRING_NPOS) /\ UNCHANGED <<tokens, maxread>>
       ELSE LET pos == SkipWhitespace(buffer, size, ret)
                c == At(buffer, pos)
            IN  /\ tokens' = IF Top.last # 0
                             THEN SetTokenSibling(tokens, capacity, Top.last, Top.now)
                             ELSE tokens
                /\ maxread' = Max(maxread, pos)
                /\ IF c = ","
                   THEN Goto("loop", pos + 1, Top.now, Top.now) /\ UNCHANGED ret
                   ELSE IF c = "]"
                   THEN Return(pos + 1)
                   ELSE IF ~simple
                   THEN Return(STRING_NPOS)
                   ELSE Goto("loop", pos, Top.now, Top.now) /\ UNCHANGED ret
    /\ Leave
    /\ UNCHANGED <<buffer, size, capacity, tokens0, current, simple, pc, result, ncall,
                   first, parent>>

(***************************************************************************)
(* The entry points                                                        *)
(***************************************************************************)

\* lines 333-336: json_parse up to its call of parse_value
JsonParse ==
    /\ pc = "idle" /\ ~simple
    /\ current' = 0
    /\ tokens' = SetTokenPrimitive(SetTokenId(tokens, capacity, 0, 0, 0),
                                   capacity, 0, JSON_UNDEFINED, 0, 0)
    /\ stack' = <<Frame("parse_value", "start", 0, 0, 0)>>
    /\ pc' = "json_parse"
    /\ maxread' = -1
    /\ parent' = <<>>
    /\ open' = <<>>
    /\ UNCHANGED <<buffer, size, capacity, tokens0, simple, ret, result, ncall, first>>

\* json_parse failing unless the value is all there is in the buffer
JsonParseReturnWholeBuffer ==
    /\ pc = "json_parse" /\ stack = <<>>
    /\ result' = IF ret = STRING_NPOS \/ SkipWhitespace(buffer, size, ret) < size
                 THEN 0 ELSE current
    /\ pc' = "done"
    /\ UNCHANGED <<buffer, size, capacity, tokens, tokens0, current, simple, stack, ret,
                   maxread, ncall, first, parent, open>>

\* lines 336-338: json_parse after parse_value has returned
JsonParseReturn ==
    /\ pc = "json_parse" /\ stack = <<>>
    /\ result' = IF ret = STRING_NPOS THEN 0 ELSE current
    /\ pc' = "done"
    /\ UNCHANGED <<buffer, size, capacity, tokens, tokens0, current, simple, stack, ret,
                   maxread, ncall, first, parent, open>>

\* sjson_parse synthesizing the root object without set_token_id
SjsonParseKeepsKey ==
    /\ pc = "idle" /\ simple
    /\ LET pos == SkipWhitespace(buffer, size, 0)
       IN  /\ IF pos < size /\ At(buffer, pos) # "{"
              THEN /\ tokens' = SetTokenComplex(tokens, capacity, 0, JSON_OBJECT)
                   /\ current' = 1
                   /\ stack' = <<Frame("parse_object", "start", pos, 0, 0)>>
                   /\ pc' = "sjson_object"
                   /\ parent' = <<-1>>
                   /\ open' = <<0>>
              ELSE /\ tokens' = tokens
                   /\ current' = 0
                   /\ parent' = <<>>
                   /\ open' = <<>>
                   /\ stack' = <<Frame("parse_value", "start", pos, 0, 0)>>
                   /\ pc' = "sjson_parse"
           /\ maxread' = SkipWhitespaceRead(buffer, size, 0)
    /\ UNCHANGED <<buffer, size, capacity, tokens0, simple, ret, result, ncall, first>>

\* lines 343-349 and 353: sjson_parse up to its call of parse_object or parse_value
SjsonParse ==
    /\ pc = "idle" /\ simple
    /\ LET pos == SkipWhitespace(buffer, size, 0)
       IN  /\ IF pos < size /\ At(buffer, pos) # "{"
              THEN /\ tokens' = SetTokenComplex(SetTokenId(tokens, capacity, 0, 0, 0),
                                                capacity, 0, JSON_OBJECT)
                   /\ current' = 1
                   /\ stack' = <<Frame("parse_object", "start", pos, 0, 0)>>
                   /\ pc' = "sjson_object"
                   /\ parent' = <<-1>>
                   /\ open' = <<0>>
              ELSE /\ tokens' = tokens
                   /\ current' = 0
                   /\ parent' = <<>>
                   /\ open' = <<>>
                   /\ stack' = <<Frame("parse_value", "start", pos, 0, 0)>>
                   /\ pc' = "sjson_parse"
           /\ maxread' = SkipWhitespaceRead(buffer, size, 0)
    /\ UNCHANGED <<buffer, size, capacity, tokens0, simple, ret, result, ncall, first>>

\* lines 349-351 and 353-355: sjson_parse after parse_object or parse_value has returned
SjsonParseReturn ==
    /\ pc \in {"sjson_object", "sjson_parse"} /\ stack = <<>>
    /\ result' = IF ret = STRING_NPOS THEN 0 ELSE current
    /\ pc' = "done"
    /\ UNCHANGED <<buffer, size, capacity, tokens, tokens0, current, simple, stack, ret,
                   maxread, ncall, first, parent, open>>

\* one step of a call of json_parse or sjson_parse
Parse ==
    \/ JsonParse
    \/ JsonParseReturn
    \/ SjsonParse
    \/ SjsonParseReturn
    \/ ParseValue
    \/ ParseValueReturn
    \/ ParseObject
    \/ ParseObjectValue
    \/ ParseArray
    \/ ParseArrayLoop
    \/ ParseArrayValue

(***************************************************************************)
(* The caller: the inputs it passes                                        *)
(***************************************************************************)

\* a token array slot the caller has zeroed, and one holding earlier content
ZeroToken ==
    [type |-> JSON_UNDEFINED, id |-> 0, id_length |-> 0, value |-> 0, value_length |-> 0,
     child |-> 0, sibling |-> 0]

UsedToken ==
    [type |-> JSON_STRING, id |-> 7, id_length |-> 7, value |-> 7, value_length |-> 7,
     child |-> 7, sibling |-> 7]

\* the slots of the token array in memory: enough for every index the parse of
\* an input of len bytes can reach within the bounds
Slots(len) == 0 .. (Max(MaxCap, len + MaxSpin + 1) + 1)

\* the concatenations of at most n of the lexemes L
RECURSIVE Inputs(_, _)
Inputs(L, n) ==
    IF n = 0 THEN {<<>>}
    ELSE LET S == Inputs(L, n - 1) IN S \cup {s \o l : s \in S, l \in L}

NoCall == [result |-> 0, capacity |-> 0, tokens |-> <<>>, simple |-> FALSE, size |-> 0]

\* The caller holds one of the inputs bufs, followed in memory by one of the byte
\* sequences pads, and a token array filled with one of fills, and is about to
\* call json_parse or sjson_parse with one of the capacities caps.
InitWith(bufs, pads, fills, caps) ==
    /\ \E b \in bufs, p \in pads : buffer = b \o p /\ size = Len(b)
    /\ capacity \in caps
    /\ \E f \in fills : tokens = [i \in Slots(size) |-> f]
    /\ tokens0 = tokens
    /\ simple \in BOOLEAN
    /\ current = 0
    /\ stack = <<>>
    /\ ret = 0
    /\ pc = "idle"
    /\ result = 0
    /\ maxread = -1
    /\ ncall = 1
    /\ first = NoCall
    /\ parent = <<>>
    /\ open = <<>>

Lexemes ==
    {<<"{">>, <<"}">>, <<"[">>, <<"]">>, <<",">>, <<"1">>, <<" ">>,
     <<"\"", "a", "\"", ":">>, <<"t", "r", "u", "e">>}

Init == InitWith(Inputs(Lexemes, MaxLex), {<<NUL>>}, {ZeroToken, UsedToken}, 0 .. MaxCap)

Next == Parse

Spec == Init /\ [][Next]_vars

\* The caller, after a call has returned, restores the array and calls the same
\* entry point again on the same buffer with a larger capacity (as a caller
\* does who first measures the token count and then parses into a large
\* enough array); the first call's outcome is remembered in first.
CallAgain ==
    /\ pc = "done" /\ ncall = 1
    /\ \E c \in (capacity + 1) .. MaxCap : capacity' = c
    /\ first' = [result |-> result, capacity |-> capacity, tokens |-> tokens,
                 simple |-> simple, size |-> size]
    /\ tokens' = tokens0
    /\ ncall' = 2
    /\ pc' = "idle"
    /\ UNCHANGED <<buffer, size, tokens0, current, simple, stack, ret, result, maxread,
                   parent, open>>

CapacityNext == Parse \/ CallAgain

CapacityInit ==
    InitWith(Inputs(Lexemes, MaxPairLex), {<<NUL>>}, {ZeroToken, UsedToken}, 0 .. MaxCap)

CapacitySpec == CapacityInit /\ [][CapacityNext]_vars

\* Nested values: longer inputs made of brackets, commas, members and numbers, an
\* array that may hold every token, and slots holding earlier content.
TreeLexemes ==
    {<<"{">>, <<"}">>, <<"[">>, <<"]">>, <<",">>, <<"1">>, <<"\"", "a", "\"", ":">>}

TreeInit ==
    InitWith(Inputs(TreeLexemes, MaxTreeLex), {<<NUL>>}, {UsedToken}, {1, MaxTreeLex + 1})

TreeSpec == TreeInit /\ [][Next]_vars

\* the texts bodies, each after one of the texts pre and before one of post
Wrapped(pre, bodies, post) == {p \o b \o q : p \in pre, b \in bodies, q \in post}

\* what a scalar may follow and be followed by: nothing, the start of an array or
\* of a member, and the delimiters
Openers == {<<>>, <<"[">>, <<"{", "\"", "a", "\"", ":">>}

Closers == {<<>>, <<" ">>, <<",">>, <<"]">>, <<"}">>}

\* Numbers and literals: texts made of signs, digits, dots, exponent markers,
\* the two literals and a letter, alone or as an element or a member value.
ScalarLexemes ==
    {<<"-">>, <<"1">>, <<".">>, <<"e">>, <<"+">>, <<"x">>,
     <<"t", "r", "u", "e">>, <<"f", "a", "l", "s", "e">>}

ScalarInit ==
    InitWith(Wrapped(Openers, Inputs(ScalarLexemes, MaxScalarLex), Closers),
             {<<NUL>>}, {UsedToken}, {MaxCap})

ScalarSpec == ScalarInit /\ [][Next]_vars

\* Strings: texts made of quotes, backslashes, letters, hex digits and colons,
\* alone or after the opening quote of a value, an element, a member value or a
\* member key.
StringLexemes ==
    {<<"\"">>, <<"\\">>, <<"x">>, <<"n">>, <<"u", "0">>, <<"0", "0", "0">>, <<":">>}

StringOpeners ==
    {<<>>, <<"\"">>, <<"[", "\"">>, <<"{", "\"">>, <<"{", "\"", "a", "\"", ":", "\"">>}

StringClosers == {<<>>, <<"]">>, <<"}">>}

StringInit ==
    InitWith(Wrapped(StringOpeners, Inputs(StringLexemes, MaxStringLex), StringClosers),
             {<<NUL>>}, {UsedToken}, {MaxCap})

StringSpec == StringInit /\ [][Next]_vars

\* Listings: texts made of the member a=1, its pieces, separators and brackets.
ListLexemes ==
    {<<"a", "=", "1">>, <<"a">>, <<"=">>, <<"1">>, <<" ">>, <<",">>,
     <<"{">>, <<"}">>, <<"[">>, <<"]">>}

ListInit ==
    InitWith(Inputs(ListLexemes, MaxListLex), {<<NUL>>}, {UsedToken}, {1, MaxCap})

ListSpec == ListInit /\ [][Next]_vars

\* Separators: object bodies of members separated by one space each, bare or
\* inside braces or as the value of a member.
MemberTexts ==
    {<<"a", "=", "1">>, <<"b", "=", "x">>, <<"c", "=", "{", "}">>,
     <<"d", "=", "t", "r", "u", "e">>, <<"\"", "k", "\"", ":", "[", "1", "]">>}

\* the texts of at most n of the members M, one space between two members
RECURSIVE Bodies(_, _)
Bodies(M, n) ==
    IF n <= 1 THEN M
    ELSE LET S == Bodies(M, n - 1) IN S \cup {s \o <<" ">> \o m : s \in S, m \in M}

BodyOpeners == {<<>>, <<"{">>, <<"e", "=", "{">>}

BodyClosers == {<<>>, <<"}">>}

SeparatorInit ==
    InitWith(Wrapped(BodyOpeners, Bodies(MemberTexts, MaxMembers), BodyClosers),
             {<<NUL>>}, {UsedToken}, {1, 2 * MaxMembers + 2})

\* the text with a comma in the place of every space
WithCommas(buf) == [k \in DOMAIN buf |-> IF buf[k] = " " THEN "," ELSE buf[k]]

\* The caller, after a call has returned, restores the array, puts a comma in the
\* place of every space of the buffer and calls the same entry point again; the
\* first call's outcome is remembered in first.
CallWithCommas ==
    /\ pc = "done" /\ ncall = 1
    /\ buffer' = WithCommas(buffer)
    /\ first' = [result |-> result, capacity |-> capacity, tokens |-> tokens,
                 simple |-> simple, size |-> size, buffer |-> buffer]
    /\ tokens' = tokens0
    /\ ncall' = 2
    /\ pc' = "idle"
    /\ UNCHANGED <<size, capacity, tokens0, current, simple, stack, ret, result, maxread,
                   parent, open>>

SeparatorNext == Parse \/ CallWithCommas

SeparatorSpec == SeparatorInit /\ [][SeparatorNext]_vars

\* The memory after the buffer: inputs that end inside an array, after a key or
\* inside a \u escape, followed in memory by MaxPast bytes that are not the
\* caller's and a NUL.
PadLexemes ==
    {<<"[">>, <<"]">>, <<"{">>, <<"}">>, <<"1">>, <<",">>, <<":">>,
     <<"\"", "a", "\"">>, <<"\"", "\\", "u", "0", "0", "0">>}

PadBytes == {NUL, "]", "0"}

\* the byte sequences of length n over the bytes B
RECURSIVE Bytes(_, _)
Bytes(B, n) ==
    IF n = 0 THEN {<<>>} ELSE {s \o <<b>> : s \in Bytes(B, n - 1), b \in B}

PadInit ==
    InitWith(Inputs(PadLexemes, MaxPadLex), {p \o <<NUL>> : p \in Bytes(PadBytes, MaxPast)},
             {UsedToken}, {MaxCap})

\* The caller, after a call has returned, restores the array and calls the same
\* entry point again with the same arguments, while the byte at index size, just
\* after the declared length, holds another value; the first call's outcome is
\* remembered in first.
CallWithOtherByte ==
    /\ pc = "done" /\ ncall = 1
    /\ \E b \in PadBytes \ {At(buffer, size)} : buffer' = [buffer EXCEPT ![size + 1] = b]
    /\ first' = [result |-> result, capacity |-> capacity, tokens |-> tokens,
                 simple |-> simple, size |-> size, buffer |-> buffer]
    /\ tokens' = tokens0
    /\ ncall' = 2
    /\ pc' = "idle"
    /\ UNCHANGED <<size, capacity, tokens0, current, simple, stack, ret, result, maxread,
                   parent, open>>

PadNext == Parse \/ CallWithOtherByte

PadSpec == PadInit /\ [][PadNext]_vars

\* Keys and separators: object bodies made of quoted and bare keys, the two
\* separators, values, members, commas and spaces, in an object that is the
\* input, an element or the value of a member.
KeyLexemes ==
    {<<"\"", "a", "\"">>, <<"a">>, <<":">>, <<"=">>, <<"1">>, <<",">>, <<" ">>, <<"}">>,
     <<"\"", "a", "\"", ":", "1">>}

KeyOpeners == {<<"{">>, <<"[", "{">>, <<"{", "\"", "a", "\"", ":", "{">>}

KeyInit ==
    InitWith(Wrapped(KeyOpeners, Inputs(KeyLexemes, MaxKeyLex), BodyClosers),
             {<<NUL>>}, {UsedToken}, {MaxCap})

KeySpec == KeyInit /\ [][Next]_vars

\* Truncated inputs: texts made of brackets, numbers, commas, spaces, a key and a
\* lone quote, alone or after the opening bracket of an array that is the value
\* of a member.  A call that is running takes its next step: the parser is a
\* sequential program that is not interrupted.
TruncLexemes ==
    {<<"[">>, <<"]">>, <<"{">>, <<"}">>, <<"1">>, <<",">>, <<" ">>, <<"\"">>,
     <<"\"", "a", "\"", ":">>}

ArrayOpeners == {<<"{", "\"", "a", "\"", ":", "[">>}

TruncInit ==
    InitWith(Wrapped({<<>>} \cup ArrayOpeners, Inputs(TruncLexemes, MaxTruncLex), {<<>>}),
             {<<NUL>>}, {UsedToken}, {MaxCap})

TruncSpec == TruncInit /\ [][Next]_vars /\ WF_vars(Next)

\* The content of the array before the call: each slot below the capacity is
\* zeroed or holds earlier content.
Fills(cap, len) ==
    {[i \in Slots(len) |-> IF i \in Z THEN ZeroToken ELSE UsedToken] :
         Z \in SUBSET (0 .. (cap - 1))}

FillInit ==
    InitWith(Inputs(Lexemes, MaxFillLex), {<<NUL>>}, {ZeroToken, UsedToken}, {MaxCap})

\* The caller, after a call has returned, fills the array with other content and
\* calls the same entry point again with the same buffer and capacity; the first
\* call's outcome is remembered in first.
CallWithOtherArray ==
    /\ pc = "done" /\ ncall = 1
    /\ \E f \in Fills(capacity, size) :
           /\ \E i \in 0 .. (capacity - 1) : f[i] # tokens0[i]
           /\ tokens' = f
           /\ tokens0' = f
    /\ first' = [result |-> result, capacity |-> capacity, tokens |-> tokens,
                 simple |-> simple, size |-> size, tokens0 |-> tokens0]
    /\ ncall' = 2
    /\ pc' = "idle"
    /\ UNCHANGED <<buffer, size, capacity, current, simple, stack, ret, result, maxread,
                   parent, open>>

FillNext == Parse \/ CallWithOtherArray

FillSpec == FillInit /\ [][FillNext]_vars

\* Both modes: objects whose first member has the key a, the rest being made of
\* quotes, a letter, whitespace, separators, commas, brackets, a number, a literal
\* and a further key.
RelaxLexemes ==
    {<<"\"">>, <<"b">>, <<" ">>, <<":">>, <<"=">>, <<",">>, <<"}">>, <<"]">>, <<"[">>,
     <<"1">>, <<"t", "r", "u", "e">>, <<"\"", "a", "\"", ":">>}

RelaxInit ==
    InitWith(Wrapped({<<"{", "\"", "a", "\"", ":">>}, Inputs(RelaxLexemes, MaxRelaxLex),
                     {<<"}">>}),
             {<<NUL>>}, {ZeroToken, UsedToken}, {MaxCap})

\* The caller, after json_parse has returned, restores the array and calls
\* sjson_parse with the same arguments; the first call's outcome is remembered
\* in first.
CallPermissive ==
    /\ pc = "done" /\ ncall = 1 /\ ~simple
    /\ simple' = TRUE
    /\ first' = [result |-> result, capacity |-> capacity, tokens |-> tokens,
                 simple |-> simple, size |-> size]
    /\ tokens' = tokens0
    /\ ncall' = 2
    /\ pc' = "idle"
    /\ UNCHANGED <<buffer, size, capacity, tokens0, current, stack, ret, result, maxread,
                   parent, open>>

RelaxNext == Parse \/ CallPermissive

RelaxSpec == RelaxInit /\ [][RelaxNext]_vars

\* Trailing content: texts made of brackets, commas, a number, a space, a letter
\* and a key.
TrailLexemes ==
    {<<"{">>, <<"}">>, <<"[">>, <<"]">>, <<",">>, <<"1">>, <<" ">>, <<"x">>,
     <<"\"", "a", "\"", ":">>}

TrailInit ==
    InitWith(Inputs(TrailLexemes, MaxTrailLex), {<<NUL>>}, {ZeroToken, UsedToken}, {MaxCap})

\* The caller, after json_parse has returned, restores the array and calls it
\* again on the same text without its last bytes: on a buffer that holds the
\* first n bytes and a NUL.  The first call's outcome is remembered in first;
\* it is the call on the text with bytes appended.
CallWithoutTail ==
    /\ pc = "done" /\ ncall = 1 /\ ~simple
    /\ \E n \in 1 .. (size - 1) :
           /\ size' = n
           /\ buffer' = SubSeq(buffer, 1, n) \o <<NUL>>
    /\ first' = [result |-> result, capacity |-> capacity, tokens |-> tokens,
                 simple |-> simple, size |-> size, buffer |-> buffer,
                 maxread |-> maxread]
    /\ tokens' = tokens0
    /\ ncall' = 2
    /\ pc' = "idle"
    /\ UNCHANGED <<capacity, tokens0, current, simple, stack, ret, result, maxread,
                   parent, open>>

TrailNext == Parse \/ CallWithoutTail

TrailSpec == TrailInit /\ [][TrailNext]_vars

(***************************************************************************)
(* The strict grammar, as a recognizer written from the grammar of JSON    *)
(* and not from the parser: G...(buf, len, p) is the position after the    *)
(* longest text of that kind starting at p, or -1 if there is none.        *)
(***************************************************************************)

RECURSIVE GWhitespace(_, _, _)
GWhitespace(buf, len, p) ==
    IF p < len /\ At(buf, p) \in {" ", "\t", "\n", "\r"}
    THEN GWhitespace(buf, len, p + 1) ELSE p

RECURSIVE GDigits(_, _, _)
GDigits(buf, len, p) ==
    IF p < len /\ At(buf, p) \in Digits THEN GDigits(buf, len, p + 1) ELSE p

\* number = [ "-" ] ( "0" / digit1-9 *digit ) [ "." 1*digit ] [ ( "e" / "E" ) [ "+" / "-" ] 1*digit ]
GNumber(buf, len, p) ==
    LET int == IF p < len /\ At(buf, p) = "-" THEN p + 1 ELSE p
        frac == IF int < len /\ At(buf, int) = "0" THEN int + 1 ELSE GDigits(buf, len, int)
        exp == IF frac < len /\ At(buf, frac) = "."
               THEN GDigits(buf, len, frac + 1) ELSE frac
        sign == IF exp < len /\ At(buf, exp) \in {"e", "E"} THEN exp + 1 ELSE exp
        digits == IF sign < len /\ At(buf, sign) \in {"+", "-"} THEN sign + 1 ELSE sign
        end == IF sign = exp THEN exp ELSE GDigits(buf, len, digits)
    IN  IF frac = int \/ (exp # frac /\ exp = frac + 1) \/ (sign # exp /\ end = digits)
        THEN -1 ELSE end

\* string = quote *( unescaped / "\" ( one of " \ / b f n r t / "u" 4hex ) ) quote;
\* p is the position after the opening quote
RECURSIVE GChars(_, _, _)
GChars(buf, len, p) ==
    IF p >= len THEN -1
    ELSE IF At(buf, p) = "\"" THEN p + 1
    ELSE IF At(buf, p) # "\\" THEN GChars(buf, len, p + 1)
    ELSE IF p + 1 < len /\ At(buf, p + 1) \in {"\"", "\\", "/", "b", "f", "n", "r", "t"}
    THEN GChars(buf, len, p + 2)
    ELSE IF p + 5 < len /\ At(buf, p + 1) = "u"
            /\ \A i \in 2 .. 5 : At(buf, p + i) \in HexDigits
    THEN GChars(buf, len, p + 6)
    ELSE -1

GString(buf, len, p) ==
    IF p < len /\ At(buf, p) = "\"" THEN GChars(buf, len, p + 1) ELSE -1

GWord(buf, len, p, text) ==
    IF p + Len(text) <= len /\ \A i \in 1 .. Len(text) : At(buf, p + i - 1) = text[i]
    THEN p + Len(text) ELSE -1

RECURSIVE GValue(_, _, _)
RECURSIVE GElements(_, _, _)
RECURSIVE GMembers(_, _, _)

\* value = object / array / number / string / true / false
GValue(buf, len, p) ==
    IF p >= len THEN -1
    ELSE IF At(buf, p) = "{"
    THEN LET q == GWhitespace(buf, len, p + 1)
         IN  IF q < len /\ At(buf, q) = "}" THEN q + 1 ELSE GMembers(buf, len, q)
    ELSE IF At(buf, p) = "["
    THEN LET q == GWhitespace(buf, len, p + 1)
         IN  IF q < len /\ At(buf, q) = "]" THEN q + 1 ELSE GElements(buf, len, q)
    ELSE IF At(buf, p) = "\"" THEN GString(buf, len, p)
    ELSE IF At(buf, p) = "t" THEN GWord(buf, len, p, <<"t", "r", "u", "e">>)
    ELSE IF At(buf, p) = "f" THEN GWord(buf, len, p, <<"f", "a", "l", "s", "e">>)
    ELSE GNumber(buf, len, p)

\* value *( "," value ) "]", with whitespace around the values
GElements(buf, len, p) ==
    LET v == GValue(buf, len, p)
        q == GWhitespace(buf, len, v)
    IN  IF v = -1 \/ q >= len THEN -1
        ELSE IF At(buf, q) = "]" THEN q + 1
        ELSE IF At(buf, q) = "," THEN GElements(buf, len, GWhitespace(buf, len, q + 1))
        ELSE -1

\* member *( "," member ) "}", member = string ":" value, with whitespace around
GMembers(buf, len, p) ==
    LET k == GString(buf, len, p)
        c == GWhitespace(buf, len, k)
        v == GValue(buf, len, GWhitespace(buf, len, c + 1))
        q == GWhitespace(buf, len, v)
    IN  IF k = -1 \/ c >= len \/ At(buf, c) # ":" \/ v = -1 \/ q >= len THEN -1
        ELSE IF At(buf, q) = "}" THEN q + 1
        ELSE IF At(buf, q) = "," THEN GMembers(buf, len, GWhitespace(buf, len, q + 1))
        ELSE -1

\* the first len bytes of buf are one value of the strict grammar between
\* optional whitespace
ValidStrict(buf, len) ==
    LET v == GValue(buf, len, GWhitespace(buf, len, 0))
    IN  v # -1 /\ GWhitespace(buf, len, v) = len

\* the kind of token that describes a value starting with the character c
KindOf(c) ==
    IF c = "{" THEN JSON_OBJECT
    ELSE IF c = "[" THEN JSON_ARRAY
    ELSE IF c = "\"" THEN JSON_STRING
    ELSE JSON_PRIMITIVE

(***************************************************************************)
(* What the claims speak of                                                *)
(***************************************************************************)

Done == pc = "done"

\* the call has returned a count other than 0
Succeeded == Done /\ result # 0

\* the caller's array holds every token produced
Fits == Succeeded /\ capacity >= result

\* the tokens produced, when all fit
Produced == 0 .. (result - 1)

(***************************************************************************)
(* C1: for every buffer that is a valid value of the strict grammar,       *)
(* json_parse with sufficient capacity returns a count >= 1 and token 0    *)
(* has the kind of the outermost value.                                    *)
(***************************************************************************)
C1_ValidValueIsParsed ==
    (Done /\ ~simple /\ ValidStrict(buffer, size) /\ capacity >= Max(result, 1))
        => /\ result >= 1
           /\ tokens[0].type = KindOf(At(buffer, GWhitespace(buffer, size, 0)))

(***************************************************************************)
(* C2: json_parse and sjson_parse return 0 exactly when the parse failed;  *)
(* every successful parse has produced at least one token, and the value   *)
(* returned on success is the number of tokens produced.                   *)
(***************************************************************************)
C2_ZeroExactlyOnFailure ==
    Done => /\ (result = 0) <=> (ret = STRING_NPOS)
            /\ ret # STRING_NPOS => result = Len(parent) /\ result = current /\ result >= 1

\* a parse that succeeds and one token of which lies beyond the capacity
C2_Witness == Done /\ ret # STRING_NPOS /\ result = 2 /\ capacity = 1

(***************************************************************************)
(* C4: during any call, successful or failing, no slot of the array with   *)
(* an index >= capacity is written; with capacity 0 the array is left      *)
(* unchanged.                                                              *)
(***************************************************************************)
C4_NothingWrittenBeyondCapacity ==
    \A i \in DOMAIN tokens : i >= capacity => tokens[i] = tokens0[i]

\* tokens beyond the capacity have been produced, one of them with a sibling link
\* to be set, and the slots below the capacity have been written
C4_Witness ==
    /\ Done /\ result > capacity + 1 /\ capacity >= 1
    /\ tokens[0] # tokens0[0]
    /\ \E j \in 1 .. Len(parent) : j - 1 > capacity /\ parent[j] = parent[j - 1]

(***************************************************************************)
(* C3: for a fixed buffer, entry point and initial array content, two      *)
(* calls with different capacities (0 included) return the same count, and *)
(* every slot with an index below both capacities and below the count      *)
(* holds the same field values after either call.                          *)
(***************************************************************************)
C3_CapacityDoesNotChangeTheParse ==
    (Done /\ ncall = 2)
        => /\ result = first.result
           /\ \A i \in 0 .. (Min(Min(first.capacity, capacity), result) - 1) :
                  tokens[i] = first.tokens[i]

\* two calls with capacities 1 and 2 of a parse that produces more tokens than
\* either array holds
C3_Witness ==
    Done /\ ncall = 2 /\ first.capacity = 1 /\ capacity = 2 /\ result > 2

(***************************************************************************)
(* C5: every call terminates, because the scan position makes progress:    *)
(* each iteration of the member loop of parse_object and of the element    *)
(* loop of parse_array, in which a value was parsed, leaves the loop's     *)
(* position greater than it was when the iteration began (or fails).       *)
(***************************************************************************)
C5_EveryIterationAdvances ==
    [][(/\ stack # <<>> /\ Len(stack') = Len(stack)
        /\ Top.fn \in {"parse_object", "parse_array"}
        /\ Top.at = "value" /\ Top'.at = "loop")
       => Top'.pos > Top.pos]_vars

(***************************************************************************)
(* The tree as the links record it and as the parse built it               *)
(***************************************************************************)

\* the indices met when following first_child and next_sibling from token i, in
\* the order met; an index that is not one of the n produced tokens is met but not
\* followed
RECURSIVE Walk(_, _, _)
Walk(toks, n, i) ==
    IF i >= n THEN <<i>>
    ELSE <<i>>
         \o (IF toks[i].child # 0 THEN Walk(toks, n, toks[i].child) ELSE <<>>)
         \o (IF toks[i].sibling # 0 THEN Walk(toks, n, toks[i].sibling) ELSE <<>>)

\* the container in which token i was produced (-1 for the root)
ParentOf(i) == parent[i + 1]

\* the produced tokens that follow token i in the same container
LaterMembers(i) == {j \in Produced : j > i /\ ParentOf(j) = ParentOf(i)}

\* the least element of a non-empty set of numbers
Least(S) == CHOOSE x \in S : \A y \in S : x <= y

(***************************************************************************)
(* C6: after a successful parse into an array that holds every token,      *)
(* following first_child and next_sibling from token 0 visits every index  *)
(* below the count exactly once and no other index.                        *)
(***************************************************************************)
C6_LinksVisitEveryTokenOnce ==
    Fits => LET w == Walk(tokens, result, 0)
            IN  /\ Len(w) = result
                /\ {w[k] : k \in 1 .. Len(w)} = Produced

(***************************************************************************)
(* C7: after a successful parse, every token without children has          *)
(* first_child 0, an empty object or array included.                       *)
(***************************************************************************)
C7_ChildlessHasNoFirstChild ==
    Fits => \A i \in Produced :
                (\A j \in Produced : ParentOf(j) # i) => tokens[i].child = 0

(***************************************************************************)
(* C8: after a successful parse into an array that holds every token, the  *)
(* next_sibling of a token is 0 exactly when it is the last one of its     *)
(* container, and otherwise the index of the next token of that container, *)
(* which is below the count.                                               *)
(***************************************************************************)
C8_SiblingIsNextInContainer ==
    Fits => \A i \in Produced :
                /\ tokens[i].sibling < result
                /\ tokens[i].sibling = IF LaterMembers(i) = {} THEN 0
                                       ELSE Least(LaterMembers(i))

(***************************************************************************)
(* C9: in every state of a parse, every first_child and next_sibling the   *)
(* parser has written into the token at index i is 0 or greater than i,    *)
(* and every token other than the root is produced at an index >= 1 (and   *)
(* after its container), so that index 0 is never the target of a link.    *)
(***************************************************************************)
C9_LinksPointForward ==
    /\ \A i \in DOMAIN tokens :
           /\ (i < Min(current, capacity) \/ tokens[i].child # tokens0[i].child)
                  => (tokens[i].child = 0 \/ tokens[i].child > i)
           /\ (i < Min(current, capacity) \/ tokens[i].sibling # tokens0[i].sibling)
                  => (tokens[i].sibling = 0 \/ tokens[i].sibling > i)
    /\ \A j \in 1 .. Len(parent) :
           /\ (parent[j] = -1) <=> (j = 1)
           /\ parent[j] < j - 1

\* in the middle of a parse, a token holds a sibling link to a later token that
\* has been produced, and a container holds the link to its first member
C9_Witness ==
    /\ Running /\ stack # <<>> /\ current >= 4
    /\ \E i \in 1 .. (Min(current, capacity) - 1) :
           /\ tokens[i].sibling > i /\ tokens[i].sibling < current
           /\ ParentOf(i) >= 1 /\ tokens[ParentOf(i)].child = i

(***************************************************************************)
(* C10: after a successful parse, whatever the array held before, the root *)
(* token and every token that is an element of an array have the key span  *)
(* (0,0).                                                                  *)
(***************************************************************************)
C10_RootAndElementsHaveNoKey ==
    Succeeded
        => \A i \in 0 .. (Min(result, capacity) - 1) :
               (ParentOf(i) = -1 \/ tokens[ParentOf(i)].type = JSON_ARRAY)
                   => tokens[i].id = 0 /\ tokens[i].id_length = 0

(***************************************************************************)
(* Texts of the input                                                      *)
(***************************************************************************)

\* the bytes of text are those of the buffer at position p, inside the input
TextAt(p, text) ==
    /\ p + Len(text) <= size
    /\ \A k \in 1 .. Len(text) : At(buffer, p + k - 1) = text[k]

\* position p is the end of the input or holds a delimiter
EndsAt(p) == p = size \/ (p < size /\ IsTokenDelimiter(At(buffer, p)))

TRUE_TEXT == <<"t", "r", "u", "e">>

FALSE_TEXT == <<"f", "a", "l", "s", "e">>

(***************************************************************************)
(* C12: in strict mode a buffer that begins with true or false, directly   *)
(* followed by a delimiter or by the end of the buffer, parses as one      *)
(* Primitive token of length 4 or 5 spanning the literal ('true' alone     *)
(* gives 1 token spanning the whole buffer); 'truex' fails.                *)
(***************************************************************************)
C12_LiteralsParseAsOnePrimitive ==
    (Done /\ ~simple)
        => /\ \A w \in {TRUE_TEXT, FALSE_TEXT} :
                  (TextAt(0, w) /\ EndsAt(Len(w)))
                      => /\ result = 1
                         /\ tokens[0].type = JSON_PRIMITIVE
                         /\ tokens[0].value = 0 /\ tokens[0].value_length = Len(w)
           /\ TextAt(0, TRUE_TEXT \o <<"x">>) => result = 0

(***************************************************************************)
(* Number text as the description of the number scan has it: an optional   *)
(* leading '-', digits, at most one '.', at most one exponent marker,      *)
(* which needs a digit before it and may be followed by one sign.          *)
(* ScanLength(p) is the length of the number text at p up to the first     *)
(* delimiter or the end of the buffer, -1 if the text is not of that form. *)
(***************************************************************************)
RECURSIVE NumberText(_, _, _, _, _)
NumberText(p, q, dot, digit, exp) ==
    IF EndsAt(q) THEN q - p
    ELSE LET c == At(buffer, q)
             after_exp == q > p /\ At(buffer, q - 1) \in {"e", "E"}
         IN  IF c = "-" THEN IF q = p \/ after_exp
                             THEN NumberText(p, q + 1, dot, digit, exp)
                             ELSE -1
             ELSE IF c = "+" THEN IF after_exp
                                  THEN NumberText(p, q + 1, dot, digit, exp)
                                  ELSE -1
             ELSE IF c = "." THEN IF dot THEN -1
                                  ELSE NumberText(p, q + 1, TRUE, digit, exp)
             ELSE IF c \in {"e", "E"} THEN IF ~digit \/ exp THEN -1
                                           ELSE NumberText(p, q + 1, dot, digit, TRUE)
             ELSE IF c \in Digits THEN NumberText(p, q + 1, dot, TRUE, exp)
             ELSE -1

ScanLength(p) == NumberText(p, p, FALSE, FALSE, FALSE)

\* the places of the input where a value begins in the inputs of ScalarSpec: the
\* whole input, the first element of an array, the value of the first member;
\* each with the index of the token the value becomes
ValuePlaces ==
    {pl \in {[at |-> 0, index |-> 0], [at |-> 1, index |-> 1], [at |-> 5, index |-> 1]} :
        \/ pl.at = 0
        \/ pl.at = 1 /\ TextAt(0, <<"[">>)
        \/ pl.at = 5 /\ TextAt(0, <<"{", "\"", "a", "\"", ":">>)}

\* the token of the value at place pl is a Primitive of n bytes
IsPrimitiveAt(pl, n) ==
    /\ current > pl.index
    /\ tokens[pl.index].type = JSON_PRIMITIVE
    /\ tokens[pl.index].value = pl.at /\ tokens[pl.index].value_length = n

(***************************************************************************)
(* C13: a leading '-' is accepted: where the text after a '-' is scanned   *)
(* as a number of n bytes, the text with the '-' is scanned as a number of *)
(* n + 1 bytes, as the whole input, as an array element and as a member    *)
(* value alike.                                                            *)
(***************************************************************************)
C13_LeadingMinusIsAccepted ==
    (Done /\ ~simple)
        => \A pl \in ValuePlaces :
               (/\ pl.at + 1 < size /\ At(buffer, pl.at) = "-"
                /\ At(buffer, pl.at + 1) \in Digits \cup {"."}
                /\ ParseNumber(buffer, size, pl.at + 1).r # STRING_NPOS)
                   => IsPrimitiveAt(pl, ParseNumber(buffer, size, pl.at + 1).r + 1)

(***************************************************************************)
(* C14: for a text of digits, '.', 'e'/'E' and signs the number scan stops *)
(* at the first delimiter or the end of the buffer and yields the length   *)
(* scanned; it fails exactly when it meets a second '.', a second exponent *)
(* marker, an exponent marker before any digit, a '-' that is neither      *)
(* leading nor directly after the exponent marker, or another character    *)
(* that is neither digit nor delimiter.  So '1.2.3' fails and '1e' has     *)
(* length 2.                                                               *)
(***************************************************************************)
C14_NumberScan ==
    (Done /\ ~simple /\ size > 0 /\ At(buffer, 0) \in NumberStart)
        => IF ScanLength(0) = -1
           THEN result = 0
           ELSE result = 1 /\ IsPrimitiveAt([at |-> 0, index |-> 0], ScanLength(0))

(***************************************************************************)
(* C15: in strict mode, for a quoted string all of whose escapes are       *)
(* recognized ones, the string scan yields the length of the raw content   *)
(* up to the first unescaped quote: an escaped quote does not end the      *)
(* string, and the character after an escaped backslash is not an escape.  *)
(***************************************************************************)
C15_RecognizedEscapesPassThrough ==
    (Done /\ ~simple /\ GString(buffer, size, 0) # -1)
        => /\ result = 1
           /\ tokens[0].type = JSON_STRING
           /\ tokens[0].value = 1
           /\ tokens[0].value_length = GString(buffer, size, 0) - 2

\* the content of a quoted string, from position q up to its unescaped closing
\* quote or the end of the buffer, holds a backslash followed by a character that
\* is not a recognized escape, or \u not followed by four hex digits
RECURSIVE HasBadEscape(_)
HasBadEscape(q) ==
    IF q >= size \/ At(buffer, q) = "\"" THEN FALSE
    ELSE IF At(buffer, q) # "\\" THEN HasBadEscape(q + 1)
    ELSE IF q + 1 >= size THEN FALSE
    ELSE IF At(buffer, q + 1) \in EscapedSymbols THEN HasBadEscape(q + 2)
    ELSE IF At(buffer, q + 1) = "u"
            /\ \A k \in 2 .. 5 : q + k < size /\ At(buffer, q + k) \in HexDigits
    THEN HasBadEscape(q + 6)
    ELSE TRUE

(***************************************************************************)
(* C16: a quoted string that holds a backslash followed by a character     *)
(* outside the recognized escapes, or \u not followed by four hex digits,  *)
(* makes the parse fail: the entry point returns 0, in strict and in       *)
(* permissive mode.                                                        *)
(***************************************************************************)
C16_UnrecognizedEscapeFails ==
    (Done /\ size > 0 /\ At(buffer, 0) = "\"" /\ HasBadEscape(1)) => result = 0

(***************************************************************************)
(* Spans                                                                   *)
(***************************************************************************)

\* token i is a member of an object
IsMember(i) == ParentOf(i) >= 0 /\ tokens[ParentOf(i)].type = JSON_OBJECT

\* the n bytes at offset p lie inside the input
InInput(p, n) == p + n <= size

\* the n bytes at offset p lie between two quotes of the input
IsQuoted(p, n) ==
    /\ p >= 1 /\ At(buffer, p - 1) = "\""
    /\ p + n < size /\ At(buffer, p + n) = "\""

\* the n bytes at offset p are the text of a number or literal: they begin as one,
\* hold no delimiter and end at a delimiter or at the end of the input
IsScalarText(p, n) ==
    /\ n >= 1 /\ InInput(p, n)
    /\ At(buffer, p) \in NumberStart \cup {"t", "f"}
    /\ \A k \in 0 .. (n - 1) : ~IsTokenDelimiter(At(buffer, p + k))
    /\ EndsAt(p + n)

\* the n bytes at offset p are the text of a string: they hold no quote and, in
\* permissive mode, no delimiter or separator
IsStringText(p, n) ==
    /\ InInput(p, n)
    /\ \A k \in 0 .. (n - 1) :
           /\ At(buffer, p + k) # "\""
           /\ simple => ~(IsTokenDelimiter(At(buffer, p + k))
                          \/ At(buffer, p + k) \in {"=", ":"})

(***************************************************************************)
(* C11: after a successful parse, the value span of every written          *)
(* Primitive or String token and the key span of every written member lie  *)
(* inside the input and are the token's text; in strict mode the value     *)
(* span of a String and the key span of a member lie between two quotes;   *)
(* Object and Array tokens have the value span (0,0).                      *)
(***************************************************************************)
C11_SpansLieInTheInput ==
    Succeeded
        => \A i \in 0 .. (Min(result, capacity) - 1) :
               LET t == tokens[i]
               IN  /\ t.type \in {JSON_OBJECT, JSON_ARRAY, JSON_STRING, JSON_PRIMITIVE}
                   /\ t.type = JSON_PRIMITIVE => IsScalarText(t.value, t.value_length)
                   /\ t.type = JSON_STRING
                          => /\ IsStringText(t.value, t.value_length)
                             /\ ~simple => IsQuoted(t.value, t.value_length)
                   /\ t.type \in {JSON_OBJECT, JSON_ARRAY}
                          => t.value = 0 /\ t.value_length = 0
                   /\ IsMember(i)
                          => /\ IsStringText(t.id, t.id_length)
                             /\ ~simple => IsQuoted(t.id, t.id_length)

\* a strict parse has produced a member whose key and whose String value both
\* have content
C11_Witness ==
    /\ Succeeded /\ ~simple /\ result = 2 /\ capacity >= 2
    /\ IsMember(1) /\ tokens[1].id_length >= 1
    /\ tokens[1].type = JSON_STRING /\ tokens[1].value_length >= 2

(***************************************************************************)
(* Brackets of the input (for inputs whose strings hold no brackets)       *)
(***************************************************************************)

\* the brackets of the value the input begins with that are open before position
\* p, outermost first; <<"closed">> once that value has ended
RECURSIVE OpenBrackets(_)
OpenBrackets(p) ==
    IF p = 0 THEN <<>>
    ELSE LET before == OpenBrackets(p - 1)
             c == At(buffer, p - 1)
         IN  IF before = <<"closed">> THEN before
             ELSE IF c \in {"{", "["} THEN Append(before, c)
             ELSE IF before = <<>>
             THEN IF IsWhitespace(c) THEN before ELSE <<"closed">>
             ELSE IF c \in {"}", "]"}
             THEN IF Len(before) <= 1 THEN <<"closed">>
                  ELSE SubSeq(before, 1, Len(before) - 1)
             ELSE before

\* position p lies directly inside an object of the value the input begins with
InObject(p) ==
    LET b == OpenBrackets(p) IN Len(b) >= 1 /\ b[Len(b)] = "{"

\* the comma at position p is not followed by a member (in strict mode a member
\* begins with the quote of its key)
NoMemberAfter(p) ==
    LET q == SkipWhitespace(buffer, size, p + 1)
    IN  q >= size \/ At(buffer, q) # "\""

(***************************************************************************)
(* C17: in strict mode an object in which a comma is not followed by a     *)
(* member makes json_parse return 0: a trailing comma before the closing   *)
(* brace, a leading comma in {,} and a doubled comma all fail.             *)
(***************************************************************************)
C17_CommaNeedsAMember ==
    (Done /\ ~simple)
        => \A p \in 0 .. (size - 1) :
               (At(buffer, p) = "," /\ InObject(p) /\ NoMemberAfter(p)) => result = 0

(***************************************************************************)
(* C18: in both modes, when parse_array has parsed an element and the next *)
(* character that is not whitespace is neither ',' nor ']', the parse      *)
(* fails: parse_array returns the failure sentinel instead of going on to  *)
(* a further element.                                                      *)
(***************************************************************************)
C18_ElementNeedsCommaOrBracket ==
    [][(/\ stack # <<>> /\ Top.fn = "parse_array" /\ Top.at = "value"
        /\ ret # STRING_NPOS
        /\ At(buffer, SkipWhitespace(buffer, size, ret)) \notin {",", "]"})
       => (Len(stack') < Len(stack) /\ ret' = STRING_NPOS)]_vars

(***************************************************************************)
(* C19: in either mode no successful parse has a member whose value is the *)
(* empty text in front of the '}' that follows the member's separator: a   *)
(* key and separator directly followed by '}' make the parse return 0.     *)
(***************************************************************************)
C19_MemberNeedsAValue ==
    Succeeded
        => \A i \in 0 .. (Min(result, capacity) - 1) :
               IsMember(i)
                   => ~(/\ tokens[i].type = JSON_STRING /\ tokens[i].value_length = 0
                        /\ tokens[i].value < size /\ At(buffer, tokens[i].value) = "}")

(***************************************************************************)
(* Listings of members without braces                                      *)
(***************************************************************************)

\* the first character of the input that is not whitespace is not '{'
IsImplicit ==
    LET p == SkipWhitespace(buffer, size, 0) IN p < size /\ At(buffer, p) # "{"

MEMBER_TEXT == <<"a", "=", "1">>

\* the positions of the members a=1 of the listing that begins at position p and
\* ends with the input, members being separated by whitespace or by one comma;
\* <<-1>> if the text from p is not such a listing
RECURSIVE Listing(_)
Listing(p) ==
    LET q == SkipWhitespace(buffer, size, p)
    IN  IF q >= size THEN <<>>
        ELSE IF ~(TextAt(q, MEMBER_TEXT) /\ EndsAt(q + 3)) THEN <<-1>>
        ELSE LET r == SkipWhitespace(buffer, size, q + 3)
                 comma == r < size /\ At(buffer, r) = ","
                 rest == Listing(IF comma THEN r + 1 ELSE r)
             IN  IF (comma /\ rest = <<>>) \/ (rest # <<>> /\ rest[1] = -1) THEN <<-1>>
                 ELSE <<q>> \o rest

\* token i is the Primitive member with key a and value 1 whose text is at p
IsMemberAt(i, p) ==
    /\ tokens[i].type = JSON_PRIMITIVE
    /\ tokens[i].id = p /\ tokens[i].id_length = 1
    /\ tokens[i].value = p + 2 /\ tokens[i].value_length = 1

(***************************************************************************)
(* C20: sjson_parse on an input whose first character that is not          *)
(* whitespace is not '{' makes token 0 an Object with first_child 1 and    *)
(* the key and value spans (0,0), parses the rest as the body of that      *)
(* object with members from index 1 on, and succeeds at the end of the     *)
(* buffer without a closing '}': a listing of n members a=1 returns n + 1  *)
(* ('a=1' returns 2, token 1 a Primitive with key a and value 1).          *)
(***************************************************************************)
C20_ImplicitRootObject ==
    (simple /\ IsImplicit /\ pc # "idle")
        => /\ capacity >= 1
                  => /\ tokens[0].type = JSON_OBJECT /\ tokens[0].child = 1
                     /\ tokens[0].id = 0 /\ tokens[0].id_length = 0
                     /\ tokens[0].value = 0 /\ tokens[0].value_length = 0
           /\ current >= 1 /\ parent[1] = -1
           /\ \A j \in 2 .. Len(parent) : parent[j] >= 0
           /\ Len(parent) >= 2 => parent[2] = 0
           /\ LET l == Listing(0)
              IN  (Done /\ l # <<>> /\ l[1] # -1)
                      => /\ result = Len(l) + 1
                         /\ \A k \in 1 .. Len(l) :
                                k < capacity => ParentOf(k) = 0 /\ IsMemberAt(k, l[k])

\* the listing a=1,a=1 has been parsed into an array that holds its three tokens
C20_Witness ==
    /\ simple /\ IsImplicit /\ Done /\ capacity >= 3
    /\ Len(Listing(0)) = 2 /\ Listing(0)[1] # -1 /\ result = 3

(***************************************************************************)
(* C21: in permissive mode an object body whose members are separated only *)
(* by whitespace yields the same count, the same token kinds, the same key *)
(* and value texts and the same first_child / next_sibling links as the    *)
(* same body with the members separated by commas: each member's           *)
(* next_sibling is the index of the following member, the last one's is 0. *)
(***************************************************************************)
C21_WhitespaceSeparatesLikeComma ==
    (Done /\ ncall = 2 /\ simple)
        => /\ result = first.result
           /\ \A i \in 0 .. (Min(result, capacity) - 1) :
                  /\ tokens[i] = first.tokens[i]
                  /\ IsMember(i)
                         => \A k \in 1 .. tokens[i].id_length :
                                At(buffer, tokens[i].id + k - 1)
                                    = At(first.buffer, tokens[i].id + k - 1)
                  /\ tokens[i].type \in {JSON_STRING, JSON_PRIMITIVE}
                         => \A k \in 1 .. tokens[i].value_length :
                                At(buffer, tokens[i].value + k - 1)
                                    = At(first.buffer, tokens[i].value + k - 1)
                  /\ (i >= 1 /\ ParentOf(i) = 0)
                         => tokens[i].sibling = IF LaterMembers(i) = {} THEN 0
                                                ELSE Least(LaterMembers(i))

\* a body of three members has been parsed with spaces and then with commas into
\* an array that holds every token, and the first member is linked to the second
C21_Witness ==
    /\ Done /\ ncall = 2 /\ simple /\ IsImplicit
    /\ result >= 4 /\ capacity >= result
    /\ \E k \in 1 .. size : first.buffer[k] = " " /\ buffer[k] = ","
    /\ tokens[1].sibling >= 2 /\ ParentOf(tokens[1].sibling) = 0

(***************************************************************************)
(* C22: two runs of json_parse (or sjson_parse) with the same first size    *)
(* bytes, the same capacity and the same initial array, differing only in  *)
(* the byte stored at index size, return the same count and write the same *)
(* tokens.                                                                 *)
(***************************************************************************)
C22_ByteAfterTheInputDoesNotMatter ==
    (Done /\ ncall = 2) => result = first.result /\ tokens = first.tokens

(***************************************************************************)
(* C23: during any call on a buffer of declared length size, every buffer  *)
(* index that is read is <= size.                                          *)
(***************************************************************************)
C23_ReadsStopAtTheSentinel ==
    (Running \/ Done) => maxread <= size

(***************************************************************************)
(* Members of the strict grammar                                           *)
(***************************************************************************)

\* Of the object body in which a key or the closing brace is expected at position
\* p: a key is not quoted, or a key is followed by something other than ':', or a
\* complete member is followed by something other than ',' and '}'.  (A body that
\* ends with the input, or whose key or value is not one of the grammar, has
\* other defects.)
RECURSIVE MemberDefect(_)
MemberDefect(p) ==
    LET q == GWhitespace(buffer, size, p)
        k == GString(buffer, size, q)
        c == GWhitespace(buffer, size, k)
        v == GValue(buffer, size, GWhitespace(buffer, size, c + 1))
        t == GWhitespace(buffer, size, v)
    IN  IF q >= size \/ At(buffer, q) \in {"}", ","} THEN FALSE
        ELSE IF At(buffer, q) # "\"" THEN TRUE
        ELSE IF k = -1 \/ c >= size THEN FALSE
        ELSE IF At(buffer, c) # ":" THEN TRUE
        ELSE IF v = -1 \/ t >= size \/ At(buffer, t) = "}" THEN FALSE
        ELSE IF At(buffer, t) = "," THEN MemberDefect(t + 1)
        ELSE TRUE

\* the input is the object with the one member key sep 1
IsOneMember(key, sep) ==
    LET text == <<"{">> \o key \o <<sep, "1", "}">>
    IN  size = Len(text) /\ TextAt(0, text)

(***************************************************************************)
(* C24: in strict mode json_parse returns 0 for an object in which a key   *)
(* is not quoted, in which the key is followed (after optional whitespace) *)
(* by '=' or by anything other than ':', or in which a completed member is *)
(* followed by anything other than ',' or '}'; sjson_parse accepts both    *)
(* ':' and '=' as the separator.                                           *)
(***************************************************************************)
C24_StrictMembers ==
    /\ (Done /\ ~simple)
           => \A p \in 0 .. (size - 1) :
                  (At(buffer, p) = "{" /\ OpenBrackets(p) # <<"closed">> /\ MemberDefect(p + 1))
                      => result = 0
    /\ (Done /\ simple)
           => \A key \in {<<"a">>, <<"\"", "a", "\"">>}, sep \in {":", "="} :
                  IsOneMember(key, sep)
                      => /\ result = 2
                         /\ tokens[1].type = JSON_PRIMITIVE
                         /\ tokens[1].id_length = 1 /\ At(buffer, tokens[1].id) = "a"

\* a strict parse of two complete members without a comma between them has failed
\* after the first member was produced
C24_Witness ==
    /\ Done /\ ~simple /\ result = 0 /\ current = 2
    /\ TextAt(0, <<"{", "\"", "a", "\"", ":", "1", " ", "\"", "a", "\"", ":", "1", "}">>)
    /\ MemberDefect(1)

(***************************************************************************)
(* Values the input ends in (for inputs without escapes)                   *)
(***************************************************************************)

\* what is open before position p of the value the input begins with, outermost
\* first: "{" and "[" for an object and an array whose closing bracket has not
\* been met, "\"" for a string whose closing quote has not been met;
\* <<"closed">> once that value has ended, <<>> before it begins
RECURSIVE OpenAt(_)
OpenAt(p) ==
    IF p = 0 THEN <<>>
    ELSE LET before == OpenAt(p - 1)
             c == At(buffer, p - 1)
             inner == IF before = <<>> THEN "" ELSE before[Len(before)]
             closing == IF Len(before) <= 1 THEN <<"closed">>
                        ELSE SubSeq(before, 1, Len(before) - 1)
         IN  IF before = <<"closed">> THEN before
             ELSE IF inner = "\"" THEN IF c = "\"" THEN closing ELSE before
             ELSE IF c \in {"{", "[", "\""} THEN Append(before, c)
             ELSE IF before = <<>> THEN IF IsWhitespace(c) THEN before ELSE <<"closed">>
             ELSE IF (c = "}" /\ inner = "{") \/ (c = "]" /\ inner = "[") THEN closing
             ELSE before

\* the input ends before the value it begins with has ended: it is empty or
\* whitespace, or a string, an object or an array is open at its end
EndsEarly == OpenAt(size) # <<"closed">>

\* the input begins with a member whose value is an array, and holds no closing
\* bracket
EndsInArray ==
    /\ \E o \in ArrayOpeners : TextAt(0, o)
    /\ \A p \in 0 .. (size - 1) : At(buffer, p) # "]"

C26_FailurePropagates ==
    [][(Running /\ ret = STRING_NPOS)
       => /\ tokens' = tokens /\ current' = current /\ maxread' = maxread
          /\ Len(stack') <= Len(stack)
          /\ ret' = STRING_NPOS
          /\ pc' = "done" => result' = 0]_vars

\* the permissive parse_object goes on after the value of a member has failed
\* inside an array: it is back at the head of its loop with the sentinel as
\* its position
C26_Witness ==
    /\ Running /\ simple /\ ret = STRING_NPOS /\ Len(stack) >= 2
    /\ Top.fn = "parse_object" /\ Top.at = "loop" /\ Top.pos = STRING_NPOS
    /\ current >= 3

(***************************************************************************)
(* The values of the input in the order of the text (for inputs whose      *)
(* values are objects, arrays, numbers, literals and plain strings)         *)
(***************************************************************************)

\* the number of quotes before position p (the inputs hold no escapes)
RECURSIVE QuotesBefore(_)
QuotesBefore(p) ==
    IF p = 0 THEN 0
    ELSE QuotesBefore(p - 1) + (IF At(buffer, p - 1) = "\"" THEN 1 ELSE 0)

\* the last character before position p that is not whitespace, "" if none
RECURSIVE Before(_)
Before(p) ==
    IF p = 0 THEN ""
    ELSE IF IsWhitespace(At(buffer, p - 1)) THEN Before(p - 1)
    ELSE At(buffer, p - 1)

\* a value begins at position p of the value the input begins with: a bracket,
\* the first digit of a number, a literal, or the opening quote of a string that
\* is not a key (the input itself, an element, or what follows a colon)
IsValueStart(p) ==
    /\ OpenBrackets(p) # <<"closed">>
    /\ QuotesBefore(p) % 2 = 0
    /\ \/ At(buffer, p) \in {"{", "["}
       \/ At(buffer, p) \in Digits /\ (p = 0 \/ At(buffer, p - 1) \notin Digits)
       \/ TextAt(p, TRUE_TEXT) \/ TextAt(p, FALSE_TEXT)
       \/ /\ At(buffer, p) = "\""
          /\ \/ OpenBrackets(p) = <<>>
             \/ OpenBrackets(p)[Len(OpenBrackets(p))] = "["
             \/ Before(p) = ":"

\* the positions below p at which a value begins, in increasing order
RECURSIVE ValueStarts(_)
ValueStarts(p) ==
    IF p = 0 THEN <<>>
    ELSE IF IsValueStart(p - 1) THEN Append(ValueStarts(p - 1), p - 1)
    ELSE ValueStarts(p - 1)

\* the containers token j lies in, as the parse produced it
RECURSIVE Ancestors(_)
Ancestors(j) ==
    IF ParentOf(j) = -1 THEN {} ELSE {ParentOf(j)} \cup Ancestors(ParentOf(j))

Descendants(i) == {j \in Produced : i \in Ancestors(j)}

(***************************************************************************)
(* C27: tokens are emitted in document pre-order: after a successful       *)
(* strict parse, a non-empty object or array token at index i has          *)
(* first_child = i + 1 and its first member or element is the token at     *)
(* index i + 1, all of its descendants occupy the contiguous indices       *)
(* following i, and the returned count equals the number of values in the  *)
(* input; {"a":1} gives 2 tokens, token 0 an Object with first_child 1,    *)
(* token 1 a Primitive with key a and value 1.                             *)
(***************************************************************************)
C27_TokensInDocumentOrder ==
    (Fits /\ ~simple)
        => /\ \A i \in Produced :
                  Descendants(i) # {}
                      => /\ tokens[i].type \in {JSON_OBJECT, JSON_ARRAY}
                         /\ tokens[i].child = i + 1
                         /\ ParentOf(i + 1) = i
                         /\ Descendants(i) = (i + 1) .. (i + Cardinality(Descendants(i)))
           /\ LET starts == ValueStarts(size)
              IN  /\ result = Len(starts)
                  /\ \A k \in 1 .. Len(starts) :
                         /\ tokens[k - 1].type = KindOf(At(buffer, starts[k]))
                         /\ tokens[k - 1].type = JSON_PRIMITIVE
                                => tokens[k - 1].value = starts[k]
                         /\ tokens[k - 1].type = JSON_STRING
                                => tokens[k - 1].value = starts[k] + 1
           /\ (size = 7 /\ TextAt(0, <<"{", "\"", "a", "\"", ":", "1", "}">>))
                  => /\ result = 2
                     /\ tokens[0].type = JSON_OBJECT /\ tokens[0].child = 1
                     /\ tokens[1].type = JSON_PRIMITIVE
                     /\ tokens[1].id = 2 /\ tokens[1].id_length = 1
                     /\ tokens[1].value = 5 /\ tokens[1].value_length = 1

\* a strict parse of a container inside a container, into an array that holds
\* its tokens
C27_Witness ==
    /\ Fits /\ ~simple /\ result >= 3
    /\ Cardinality(Descendants(0)) = result - 1
    /\ \E i \in Produced : i >= 1 /\ Cardinality(Descendants(i)) >= 1

(***************************************************************************)
(* C28: the count returned by json_parse and sjson_parse does not depend   *)
(* on what the caller's output array held before the call: two runs on the *)
(* same buffer and capacity with different initial array contents (slots   *)
(* holding the Undefined kind included) return the same count.             *)
(***************************************************************************)
C28_ArrayContentDoesNotMatter ==
    (Done /\ ncall = 2) => result = first.result

\* two calls have parsed an object with two members, the first linked to the
\* second, into arrays whose slot 1 held the Undefined kind before one call only
C28_Witness ==
    /\ Done /\ ncall = 2 /\ result = 3
    /\ tokens[0].type = JSON_OBJECT /\ tokens[1].sibling = 2
    /\ tokens0[1].type = JSON_UNDEFINED /\ first.tokens0[1].type # JSON_UNDEFINED

(***************************************************************************)
(* C29: every buffer whose first character that is not whitespace is '{'   *)
(* and that json_parse accepts is also accepted by sjson_parse, with the   *)
(* same count and the same token kinds, spans and links.                   *)
(***************************************************************************)
C29_PermissiveAcceptsStrict ==
    (Done /\ ncall = 2 /\ first.result # 0
          /\ At(buffer, SkipWhitespace(buffer, size, 0)) = "{")
        => /\ result = first.result
           /\ \A i \in 0 .. (Min(result, capacity) - 1) : tokens[i] = first.tokens[i]

(***************************************************************************)
(* Trailing content                                                        *)
(***************************************************************************)

\* json_parse has accepted a buffer that is a complete top-level object or array
\* and nothing else, after having parsed the same text with bytes appended
IsCompleteContainer ==
    /\ Done /\ ncall = 2 /\ ~simple
    /\ result # 0 /\ ret = size
    /\ At(buffer, SkipWhitespace(buffer, size, 0)) \in {"{", "["}

\* the appended bytes change neither the count nor any token
SameWithTail == first.result = result /\ first.tokens = tokens

(***************************************************************************)
(* C30 as stated: json_parse stops at the end of the first top-level value *)
(* and never examines the rest of the buffer: appending arbitrary bytes    *)
(* after the closing '}' or ']' of a complete top-level object or array    *)
(* changes neither the returned count nor any written token.               *)
(***************************************************************************)
C30_TailIsNeverExamined ==
    IsCompleteContainer => SameWithTail /\ first.maxread < size

(***************************************************************************)
(* C30, amended: appending arbitrary bytes after the closing '}' or ']' of *)
(* a complete top-level object or array changes neither the returned      *)
(* count nor any written token, and json_parse reads none of the appended  *)
(* bytes unless the value is an empty array, after which it skips          *)
(* whitespace.                                                             *)
(***************************************************************************)
C30_TailDoesNotMatter ==
    IsCompleteContainer
        => /\ SameWithTail
           /\ first.maxread >= size
                  => /\ result = 1
                     /\ At(buffer, SkipWhitespace(buffer, size, 0)) = "["
                     /\ \A p \in size .. (first.maxread - 1) :
                            IsWhitespace(At(first.buffer, p))

\* an array with an element has been parsed with a letter after its closing
\* bracket and without it
C30_Witness ==
    /\ IsCompleteContainer /\ result = 2 /\ tokens[0].type = JSON_ARRAY
    /\ first.size > size /\ At(first.buffer, size) = "x"

====
